---- MODULE Spec2Model ----
(***************************************************************************)
(* Model of furi/core/timer.c: the software timer service layered on the   *)
(* FreeRTOS timer daemon.  One application thread calls the API; the       *)
(* daemon thread (FreeRTOS prvTimerTask) processes expired timers and the  *)
(* command queue and runs the dispatch trampoline TimerCallback.  Time is  *)
(* kept relative: each armed timer holds the ticks remaining to its        *)
(* expiry and each time-stamped command holds the ticks since its issue.   *)
(***************************************************************************)
EXTENDS Integers, Sequences, FiniteSets, TLC

\* ---------------------------------------------------------------- bounds
QueueLen == 2
MaxTicks == 2
MaxAge == 1
MaxFires == 2
MaxArg == 3

\* ------------------------------------------------------ program constants
\* portMAX_DELAY (0xFFFFFFFF in the build), scaled to sit right above the
\* largest tick count the model passes.
portMAX_DELAY == MaxTicks + 1
NULL == 0

\* The model follows one timer object and one Callback Slot through their
\* lifetimes: the handle and the slot are allocated, freed and allocated anew.
TimerIds == {1}
Slots == {1}
Contexts == {"ctx1", "ctx2"}
GARBAGE == "garbage"
FuriTimerTypeOnce == "FuriTimerTypeOnce"
FuriTimerTypePeriodic == "FuriTimerTypePeriodic"
TimerTypes == {FuriTimerTypeOnce, FuriTimerTypePeriodic}
FuriStatusOk == "FuriStatusOk"
FuriStatusErrorResource == "FuriStatusErrorResource"
FuriTimerThreadPriorityNormal == "FuriTimerThreadPriorityNormal"
FuriTimerThreadPriorityElevated == "FuriTimerThreadPriorityElevated"
PriorityLevels == {FuriTimerThreadPriorityNormal, FuriTimerThreadPriorityElevated, "other"}
\* Tick counts passed with the clock stopped: one the entry check accepts and
\* the sentinel it rejects.
TickInputs == {1, portMAX_DELAY}
ThreadOnlyOps == {"alloc", "free", "start", "restart", "stop", "is_running",
                  "get_expire_time", "set_thread_priority"}

VARIABLES
    timers,             \* kernel timer objects (Timer_t), by handle
    heap,               \* the Callback Slots (TimerCallback_t), by slot
    queue,              \* the daemon's command queue (xTimerQueue)
    dpc,                \* position of the daemon thread
    dtimer,             \* timer whose callback the daemon is dispatching
    dcallb,             \* callb: the untagged slot address the trampoline read
    dctx,               \* context value passed to the user callback
    dleft,              \* further callbacks owed by prvReloadTimer
    darg,               \* arg of the pended function the daemon is running
    current_timer_name, \* the process-wide diagnostic slot
    prio,               \* priority of the daemon task
    pc,                 \* position of the application thread
    call,               \* the API call in progress or last made
    fcallb,             \* furi_timer_free's local callb
    handles,            \* handles the application holds
    crashed,            \* furi_check / furi_crash fired: the system halted
    fires,              \* history: dispatches of T since its last arming call
    started,            \* history: Start/Restart issued on T since Allocate
    given               \* history: the context value Allocate was given for T

kernel == <<timers, heap, queue, prio>>
daemon == <<dpc, dtimer, dcallb, dctx, dleft, darg, current_timer_name>>
app == <<pc, call, fcallb, handles, crashed>>
hist == <<fires, started, given>>
vars == <<timers, heap, queue, dpc, dtimer, dcallb, dctx, dleft, darg,
          current_timer_name, prio, pc, call, fcallb, handles, crashed,
          fires, started, given>>

\* ---------------------------------------------------------------- helpers
Min(a, b) == IF a < b THEN a ELSE b

\* The address of a Callback Slot: malloc returns aligned (even) addresses.
SlotAddr(s) == 2 * s
SlotOf(addr) == addr \div 2

\* Faulty variant: the flag is not stored.
SetFlag_Missing(p) == p

\* (uint32_t)callb | 1U
SetFlag(p) == IF p % 2 = 1 THEN p ELSE p + 1
\* (uint32_t)callb & ~1U
ClearFlag(p) == p - (p % 2)
\* (uint32_t)callb & 1U
FlagOf(p) == p % 2

NoCall == [op |-> "none", t |-> NULL, ticks |-> 0, irq |-> FALSE,
           stat |-> "none", val |-> 0, sent |-> 0, clean |-> FALSE,
           inflight |-> FALSE, level |-> "none"]
NoTimer == [alloc |-> FALSE, active |-> FALSE, reload |-> FALSE,
            period |-> portMAX_DELAY, remaining |-> 0, id |-> NULL,
            name |-> "none"]
NoSlot == [live |-> FALSE, func |-> "none", context |-> "none"]

Msg(c, t, v) == [cmd |-> c, timer |-> t, value |-> v]
IsTimed(m) == m.cmd \in {"START", "RESET"}
MsgsFor(t) == {i \in 1..Len(queue) : queue[i].timer = t}
QueueFull == Len(queue) >= QueueLen

FreeTimerIds == {t \in TimerIds : ~timers[t].alloc}
FreeSlots == {s \in Slots : ~heap[s].live}
Lowest(S) == CHOOSE x \in S : \A y \in S : x <= y

Init ==
    /\ timers = [t \in TimerIds |-> NoTimer]
    /\ heap = [s \in Slots |-> NoSlot]
    /\ queue = <<>>
    /\ dpc = "top"
    /\ dtimer = NULL
    /\ dcallb = NULL
    /\ dctx = "none"
    /\ dleft = 0
    /\ darg = 0
    /\ current_timer_name = "NULL"
    /\ prio = "initial"
    /\ pc = "idle"
    /\ call = NoCall
    /\ fcallb = NULL
    /\ handles = {}
    /\ crashed = FALSE
    /\ fires = [t \in TimerIds |-> 0]
    /\ started = [t \in TimerIds |-> FALSE]
    /\ given = [t \in TimerIds |-> "none"]

\* ------------------------------------------------- kernel timer subsystem
\* xTimerCreate: a new timer object, dormant (its active bit clear).
xTimerCreate(name, period, reload, id) ==
    [alloc |-> TRUE, active |-> FALSE, reload |-> reload, period |-> period,
     remaining |-> 0, id |-> id, name |-> name]

pvTimerGetTimerID(t) == timers[t].id
pcTimerGetName(t) == timers[t].name
xTimerIsTimerActive(t) == timers[t].active
\* Expiry relative to now; the value of a dormant timer is whatever is left
\* in its list item.
xTimerGetExpiryTime(t) == timers[t].remaining

\* prvProcessReceivedCommands, one timer command m applied to timer object tm.
\* START/RESET count the period from the command's time stamp (m.value ticks
\* ago); CHANGE_PERIOD counts the new period from now.
ApplyCommand(tm, m) ==
    CASE IsTimed(m) ->
            IF m.value < tm.period
            THEN [tm EXCEPT !.active = TRUE, !.remaining = tm.period - m.value]
            ELSE IF tm.reload
                 THEN [tm EXCEPT !.active = TRUE,
                                 !.remaining = tm.period - (m.value % tm.period)]
                 ELSE [tm EXCEPT !.active = FALSE]
      [] m.cmd = "STOP" -> [tm EXCEPT !.active = FALSE]
      [] m.cmd = "CHANGE_PERIOD" ->
            [tm EXCEPT !.active = TRUE, !.period = m.value, !.remaining = m.value]
      [] m.cmd = "DELETE" -> NoTimer
      [] OTHER -> tm

\* Callbacks the daemon runs at once because the command's expiry has
\* already passed (prvInsertTimerInActiveList returned pdTRUE, prvReloadTimer).
CallbacksOwed(tm, m) ==
    IF IsTimed(m) /\ m.value >= tm.period
    THEN IF tm.reload THEN m.value \div tm.period ELSE 1
    ELSE 0

\* prvProcessExpiredTimer: an auto-reload timer is re-inserted and stays
\* active; a one-shot timer has its active bit cleared before its callback.
ExpireTimer(tm) ==
    IF tm.reload THEN [tm EXCEPT !.remaining = tm.period]
    ELSE [tm EXCEPT !.active = FALSE]

Due(t) == timers[t].alloc /\ timers[t].active /\ timers[t].remaining = 0

\* ------------------------------------------------------ dispatch trampoline
\* TimerCallback, up to the null test: read the tagged pointer, drop the flag.
TimerCallback_callb(tmrs, t) == ClearFlag(tmrs[t].id)

\* The daemon calls pxCallbackFunction = TimerCallback for timer t.
Dispatch(tmrs, t, owed) ==
    /\ dtimer' = t
    /\ dcallb' = TimerCallback_callb(tmrs, t)
    /\ dpc' = IF TimerCallback_callb(tmrs, t) # NULL THEN "cb_read" ELSE "drain"
    /\ dleft' = owed
    /\ fires' = [fires EXCEPT ![t] = Min(@ + 1, MaxFires)]

\* Faulty variant: the name is not published.
TimerCallback_name_Unset(t) == "NULL"

\* current_timer_name = pcTimerGetName(hTimer)
TimerCallback_name(t) == pcTimerGetName(t)

\* callb->func(callb->context) with the diagnostic name published.  Reading
\* a released slot is undefined: any context value may come out.
TimerCallback_invoke ==
    /\ ~crashed
    /\ dpc = "cb_read"
    /\ current_timer_name' = TimerCallback_name(dtimer)
    /\ IF heap[SlotOf(dcallb)].live
       THEN dctx' = heap[SlotOf(dcallb)].context
       ELSE dctx' \in Contexts \cup {GARBAGE}
    /\ dpc' = "cb_user"
    /\ UNCHANGED <<kernel, dtimer, dcallb, dleft, darg, app, hist>>

\* The user callback returns; the trampoline clears the diagnostic slot.
TimerCallback_return ==
    /\ ~crashed
    /\ dpc = "cb_user"
    /\ current_timer_name' = "NULL"
    /\ dctx' = "none"
    /\ IF dleft > 0
       THEN Dispatch(timers, dtimer, dleft - 1)
       ELSE /\ dpc' = "drain"
            /\ dtimer' = NULL
            /\ dcallb' = NULL
            /\ UNCHANGED <<dleft, fires>>
    /\ UNCHANGED <<kernel, darg, app, started, given>>

\* ------------------------------------------------------------ daemon thread
\* prvProcessTimerOrBlockTask: a timer is due, process it.
DaemonExpire(t) ==
    /\ ~crashed
    /\ dpc = "top"
    /\ Due(t)
    /\ timers' = [timers EXCEPT ![t] = ExpireTimer(@)]
    /\ Dispatch(timers', t, 0)
    /\ UNCHANGED <<heap, queue, prio, dctx, darg, current_timer_name, app, started,
                   given>>

\* The daemon was blocked on the queue and a message has arrived: it goes on
\* to prvProcessReceivedCommands, whether or not a timer came due meanwhile.
DaemonWake ==
    /\ ~crashed
    /\ dpc = "top"
    /\ queue # <<>>
    /\ dpc' = "drain"
    /\ UNCHANGED <<kernel, dtimer, dcallb, dctx, dleft, darg, current_timer_name, app,
                   hist>>

\* prvProcessReceivedCommands: one timer command.
DaemonCommand ==
    /\ ~crashed
    /\ dpc = "drain"
    /\ queue # <<>>
    /\ Head(queue).cmd # "PEND"
    /\ LET m == Head(queue)
           t == m.timer
       IN /\ timers' = [timers EXCEPT ![t] = ApplyCommand(@, m)]
          /\ queue' = Tail(queue)
          /\ IF CallbacksOwed(timers[t], m) > 0
             THEN Dispatch(timers', t, CallbacksOwed(timers[t], m) - 1)
             ELSE UNCHANGED <<dpc, dtimer, dcallb, dleft, fires>>
    /\ UNCHANGED <<heap, prio, dctx, darg, current_timer_name, app, started, given>>

\* prvProcessReceivedCommands: a pended function call starts to run.
DaemonPend ==
    /\ ~crashed
    /\ dpc = "drain"
    /\ queue # <<>>
    /\ Head(queue).cmd = "PEND"
    /\ queue' = Tail(queue)
    /\ dpc' = "pend_user"
    /\ darg' = Head(queue).value
    /\ UNCHANGED <<timers, heap, prio, dtimer, dcallb, dctx, dleft,
                   current_timer_name, app, hist>>

DaemonPendReturn ==
    /\ ~crashed
    /\ dpc = "pend_user"
    /\ dpc' = "drain"
    /\ darg' = 0
    /\ UNCHANGED <<kernel, dtimer, dcallb, dctx, dleft, current_timer_name, app, hist>>

\* The queue is drained: back to the top of prvTimerTask's loop.
DaemonDrained ==
    /\ ~crashed
    /\ dpc = "drain"
    /\ queue = <<>>
    /\ dpc' = "top"
    /\ UNCHANGED <<kernel, dtimer, dcallb, dctx, dleft, darg, current_timer_name, app,
                   hist>>

\* One kernel tick.  Time stands still while a due timer waits for the daemon.
Tick ==
    /\ ~crashed
    /\ \A t \in TimerIds : ~Due(t)
    /\ \A i \in 1..Len(queue) : IsTimed(queue[i]) => queue[i].value < MaxAge
    /\ timers' = [t \in TimerIds |->
                    IF timers[t].active
                    THEN [timers[t] EXCEPT !.remaining = @ - 1]
                    ELSE timers[t]]
    /\ queue' = [i \in 1..Len(queue) |->
                    IF IsTimed(queue[i])
                    THEN [queue[i] EXCEPT !.value = @ + 1]
                    ELSE queue[i]]
    /\ UNCHANGED <<heap, prio, daemon, app, fires, started, given>>

\* -------------------------------------------------------- application API
Funcs == {"cb"}

\* What the application thread knows of the call it is in or made last.
Call(op, t, ticks, irq) ==
    [NoCall EXCEPT !.op = op, !.t = t, !.ticks = ticks, !.irq = irq]

\* The daemon is inside the trampoline for t.
InTrampoline(t) == dtimer = t /\ dpc \in {"cb_read", "cb_user"}

\* No command for t is queued, t is dormant and not being dispatched.
Quiet(t) == ~timers[t].active /\ MsgsFor(t) = {} /\ ~InTrampoline(t)

\* furi_check failed or furi_crash: the system halts where it is.
Fatal(op, irq, ticks) ==
    /\ crashed' = TRUE
    /\ call' = Call(op, NULL, ticks, irq)
    /\ UNCHANGED <<kernel, daemon, pc, fcallb, handles, hist>>

\* Faulty variants of the commands: Start that calls xTimerStart and so never
\* changes the period, Restart that does the same before its reset, Stop that
\* resets the countdown.
StartCommand_AsStart(t, ticks) == Msg("START", t, 0)
RestartCommands_NoPeriod(t, ticks) == <<Msg("START", t, 0), Msg("RESET", t, 0)>>
StopCommand_AsReset(t) == Msg("RESET", t, 0)
\* Faulty variant: Start that disarms.
StartCommand_AsStop(t, ticks) == Msg("STOP", t, 0)

\* The commands the API sends to the daemon.
StartCommand(t, ticks) == Msg("CHANGE_PERIOD", t, ticks)
RestartCommands(t, ticks) == <<Msg("CHANGE_PERIOD", t, ticks), Msg("RESET", t, 0)>>
StopCommand(t) == Msg("STOP", t, 0)
DeleteCommand(t) == Msg("DELETE", t, 0)

\* Faulty variant: the context check left out.
ContextCheck_Skipped(irq) == TRUE

\* furi_kernel_is_irq_or_masked() == 0, the first check of every
\* thread-context-only operation.
ContextCheck(irq) == ~irq

\* Faulty variant: the timer is created already counting down.
AllocTimer_Armed(type, callb) ==
    [xTimerCreate("appid", portMAX_DELAY, type # FuriTimerTypeOnce, SetFlag(callb))
        EXCEPT !.active = TRUE, !.remaining = 1]

\* The timer object furi_timer_alloc creates for a slot at address callb.
AllocTimer(type, callb) ==
    xTimerCreate("appid", portMAX_DELAY, type # FuriTimerTypeOnce, SetFlag(callb))

furi_timer_alloc(func, type, context, irq, created) ==
    /\ ~crashed /\ pc = "idle"
    /\ IF ~(ContextCheck(irq) /\ func # "NULL")
       THEN Fatal("alloc", irq, 0)
       ELSE /\ FreeTimerIds # {} /\ FreeSlots # {}
            /\ LET h == Lowest(FreeTimerIds)
                   s == Lowest(FreeSlots)
               IN /\ heap' = [heap EXCEPT ![s] =
                              [live |-> TRUE, func |-> func, context |-> context]]
                  /\ IF created
                     THEN /\ timers' = [timers EXCEPT ![h] =
                                            AllocTimer(type, SlotAddr(s))]
                          /\ handles' = handles \cup {h}
                          /\ call' = Call("alloc", h, 0, irq)
                          /\ fires' = [fires EXCEPT ![h] = 0]
                          /\ started' = [started EXCEPT ![h] = FALSE]
                          /\ given' = [given EXCEPT ![h] = context]
                          /\ UNCHANGED crashed
                     ELSE /\ crashed' = TRUE
                          /\ call' = Call("alloc", NULL, 0, irq)
                          /\ UNCHANGED <<timers, handles, hist>>
            /\ UNCHANGED <<queue, prio, daemon, pc, fcallb>>

\* Faulty variant: the sentinel itself is let through.
TicksCheck_Inclusive(ticks) == ticks <= portMAX_DELAY

\* furi_check(ticks < portMAX_DELAY)
TicksCheck(ticks) == ticks < portMAX_DELAY

furi_timer_start(instance, ticks, irq) ==
    /\ ~crashed /\ pc = "idle"
    /\ IF ~ContextCheck(irq) \/ instance = NULL
       THEN Fatal("start", irq, 0)
       ELSE IF ~TicksCheck(ticks)
       THEN Fatal("start", irq, ticks)
       ELSE /\ \/ /\ ~QueueFull
                  /\ queue' = Append(queue, StartCommand(instance, ticks))
                  /\ call' = [Call("start", instance, ticks, irq) EXCEPT
                                 !.stat = FuriStatusOk, !.sent = 1,
                                 !.clean = Quiet(instance)]
               \/ /\ QueueFull
                  /\ call' = [Call("start", instance, ticks, irq) EXCEPT
                                 !.stat = FuriStatusErrorResource]
                  /\ UNCHANGED queue
            /\ fires' = [fires EXCEPT ![instance] = 0]
            /\ started' = [started EXCEPT ![instance] = TRUE]
            /\ UNCHANGED <<timers, heap, prio, daemon, pc, fcallb, handles, crashed,
                           given>>

\* furi_timer_restart up to its first command, xTimerChangePeriod.
furi_timer_restart(instance, ticks, irq) ==
    /\ ~crashed /\ pc = "idle"
    /\ IF ~ContextCheck(irq) \/ instance = NULL
       THEN Fatal("restart", irq, 0)
       ELSE IF ~TicksCheck(ticks)
       THEN Fatal("restart", irq, ticks)
       ELSE /\ \/ /\ ~QueueFull
                  /\ queue' = Append(queue, RestartCommands(instance, ticks)[1])
                  /\ call' = [Call("restart", instance, ticks, irq) EXCEPT
                                 !.sent = 1, !.clean = Quiet(instance)]
                  /\ pc' = "restart_reset"
               \/ /\ QueueFull
                  /\ call' = [Call("restart", instance, ticks, irq) EXCEPT
                                 !.stat = FuriStatusErrorResource]
                  /\ UNCHANGED <<queue, pc>>
            /\ fires' = [fires EXCEPT ![instance] = 0]
            /\ started' = [started EXCEPT ![instance] = TRUE]
            /\ UNCHANGED <<timers, heap, prio, daemon, fcallb, handles, crashed, given>>

\* furi_timer_restart's second command, xTimerReset, stamped with the time
\* of this call.
furi_timer_restart_reset ==
    /\ ~crashed /\ pc = "restart_reset"
    /\ \/ /\ ~QueueFull
          /\ queue' = Append(queue, RestartCommands(call.t, call.ticks)[2])
          /\ call' = [call EXCEPT !.stat = FuriStatusOk, !.sent = @ + 1]
       \/ /\ QueueFull
          /\ call' = [call EXCEPT !.stat = FuriStatusErrorResource]
          /\ UNCHANGED queue
    /\ pc' = "idle"
    /\ UNCHANGED <<timers, heap, prio, daemon, fcallb, handles, crashed, hist>>

furi_timer_stop(instance, irq) ==
    /\ ~crashed /\ pc = "idle"
    /\ IF ~ContextCheck(irq) \/ instance = NULL
       THEN Fatal("stop", irq, 0)
       ELSE \/ /\ ~QueueFull
               /\ queue' = Append(queue, StopCommand(instance))
               /\ call' = [Call("stop", instance, 0, irq) EXCEPT
                              !.stat = FuriStatusOk, !.sent = 1]
               /\ UNCHANGED <<timers, heap, prio, daemon, pc, fcallb, handles,
                              crashed, hist>>
            \/ /\ QueueFull
               /\ Fatal("stop", irq, 0)

\* Faulty variant: the active state negated.
IsRunningValue_Negated(t) == IF xTimerIsTimerActive(t) THEN 0 ELSE 1

\* Faulty variant: every timer reads as running.
IsRunningValue_Always(t) == 1

\* The value furi_timer_is_running returns for a live handle.
IsRunningValue(t) == IF xTimerIsTimerActive(t) THEN 1 ELSE 0

furi_timer_is_running(instance, irq) ==
    /\ ~crashed /\ pc = "idle"
    /\ IF ~ContextCheck(irq) \/ instance = NULL
       THEN Fatal("is_running", irq, 0)
       ELSE /\ call' = [Call("is_running", instance, 0, irq) EXCEPT
                           !.val = IsRunningValue(instance)]
            /\ UNCHANGED <<kernel, daemon, pc, fcallb, handles, crashed, hist>>

furi_timer_get_expire_time(instance, irq) ==
    /\ ~crashed /\ pc = "idle"
    /\ IF ~ContextCheck(irq) \/ instance = NULL
       THEN Fatal("get_expire_time", irq, 0)
       ELSE /\ call' = [Call("get_expire_time", instance, 0, irq) EXCEPT
                           !.val = xTimerGetExpiryTime(instance)]
            /\ UNCHANGED <<kernel, daemon, pc, fcallb, handles, crashed, hist>>

\* Faulty variant: the slot is never taken for one the service owns.
FreeOwns_Never(callb) == FALSE

\* (uint32_t)callb & 1U: the slot was allocated by the service.
FreeOwns(callb) == FlagOf(callb) = 1

\* furi_timer_free up to xTimerStop: the checks, the tagged pointer read.
furi_timer_free(instance, irq) ==
    /\ ~crashed /\ pc = "idle"
    /\ IF ~ContextCheck(irq) \/ instance = NULL
       THEN Fatal("free", irq, 0)
       ELSE IF FreeOwns(pvTimerGetTimerID(instance))
            THEN \/ /\ ~QueueFull
                    /\ queue' = Append(queue, StopCommand(instance))
                    /\ call' = [Call("free", instance, 0, irq) EXCEPT
                                   !.sent = 1, !.inflight = InTrampoline(instance)]
                    /\ fcallb' = pvTimerGetTimerID(instance)
                    /\ pc' = "free_poll"
                    /\ UNCHANGED <<timers, heap, prio, daemon, handles,
                                   crashed, hist>>
                 \/ /\ QueueFull
                    /\ Fatal("free", irq, 0)
            ELSE /\ call' = [Call("free", instance, 0, irq) EXCEPT
                                !.inflight = InTrampoline(instance)]
                 /\ fcallb' = pvTimerGetTimerID(instance)
                 /\ pc' = "free_delete"
                 /\ UNCHANGED <<kernel, daemon, handles, crashed, hist>>

\* while(furi_timer_is_running(instance)) furi_delay_tick(2): the loop is
\* left on the first poll that reads the timer inactive.
furi_timer_free_poll ==
    /\ ~crashed /\ pc = "free_poll"
    /\ IsRunningValue(call.t) = 0
    /\ pc' = "free_release"
    /\ UNCHANGED <<kernel, daemon, call, fcallb, handles, crashed, hist>>

\* free(callb) with the flag cleared.
furi_timer_free_release ==
    /\ ~crashed /\ pc = "free_release"
    /\ fcallb' = ClearFlag(fcallb)
    /\ heap' = [heap EXCEPT ![SlotOf(fcallb')].live = FALSE]
    /\ pc' = "free_delete"
    /\ UNCHANGED <<timers, queue, prio, daemon, call, handles, crashed, hist>>

\* furi_check(xTimerDelete(hTimer, portMAX_DELAY) == pdPASS), then return.
furi_timer_free_delete ==
    /\ ~crashed /\ pc = "free_delete"
    /\ \/ /\ ~QueueFull
          /\ queue' = Append(queue, DeleteCommand(call.t))
          /\ call' = [call EXCEPT !.stat = "returned", !.sent = @ + 1]
          /\ handles' = handles \ {call.t}
          /\ pc' = "idle"
          /\ fcallb' = NULL
          /\ UNCHANGED crashed
       \/ /\ QueueFull
          /\ crashed' = TRUE
          /\ UNCHANGED <<queue, call, handles, pc, fcallb>>
    /\ UNCHANGED <<timers, heap, prio, daemon, hist>>

\* Faulty variant: the result of the submission is not checked.
PendCheck_Skipped(sent) == TRUE

\* furi_check(ret == pdPASS) on the result of the submission.
PendCheck(sent) == sent

\* Faulty variant: the submission made from interrupt context may wait.
PendWait_Always(irq) == portMAX_DELAY

\* Ticks the submission may wait for room in the queue: none on the path
\* xTimerPendFunctionCallFromISR, FuriWaitForever on xTimerPendFunctionCall.
PendWait(irq) == IF irq THEN 0 ELSE portMAX_DELAY

\* Faulty variant: the interrupt path puts its message at the front.
PendSubmit_Front(q, arg, irq) ==
    IF irq THEN <<Msg("PEND", NULL, arg)>> \o q ELSE Append(q, Msg("PEND", NULL, arg))

\* xTimerPendFunctionCallFromISR / xTimerPendFunctionCall: on either path the
\* call goes to the back of the daemon's queue.
PendSubmit(q, arg, irq) == Append(q, Msg("PEND", NULL, arg))

\* furi_timer_pending_callback: the one operation allowed in both contexts.
\* With room in the queue the call is queued at the back.  With the queue
\* full, the submission fails or, on the path that may wait, blocks.
furi_timer_pending_callback(callback, arg, irq) ==
    /\ ~crashed /\ pc = "idle"
    /\ IF callback = "NULL"
       THEN Fatal("pending_callback", irq, 0)
       ELSE \/ /\ ~QueueFull
               /\ PendCheck(TRUE)
               /\ queue' = PendSubmit(queue, arg, irq)
               /\ call' = [Call("pending_callback", NULL, 0, irq) EXCEPT
                              !.stat = "returned", !.val = arg, !.sent = 1]
               /\ UNCHANGED <<timers, heap, prio, daemon, pc, fcallb, handles,
                              crashed, hist>>
            \/ /\ QueueFull
               /\ IF PendCheck(FALSE)
                  THEN /\ call' = [Call("pending_callback", NULL, 0, irq) EXCEPT
                                      !.stat = "returned", !.val = arg]
                       /\ UNCHANGED <<kernel, daemon, pc, fcallb, handles,
                                      crashed, hist>>
                  ELSE Fatal("pending_callback", irq, 0)
            \/ /\ QueueFull
               /\ PendWait(irq) > 0
               /\ call' = [Call("pending_callback", NULL, 0, irq) EXCEPT !.val = arg]
               /\ pc' = "pend_wait"
               /\ UNCHANGED <<kernel, daemon, fcallb, handles, crashed, hist>>

\* The blocked submission goes through once the queue has room.
furi_timer_pending_callback_wait ==
    /\ ~crashed /\ pc = "pend_wait"
    /\ ~QueueFull
    /\ queue' = PendSubmit(queue, call.val, call.irq)
    /\ call' = [call EXCEPT !.stat = "returned", !.sent = 1]
    /\ pc' = "idle"
    /\ UNCHANGED <<timers, heap, prio, daemon, fcallb, handles, crashed, hist>>

Instances == handles \cup {NULL}

\* The handle of the daemon task: NULL until the kernel has created it.
xTimerGetTimerDaemonTaskHandle == IF prio = "none" THEN NULL ELSE 1

\* Faulty variant: the handle is not checked.
TaskHandleCheck_Skipped(task_handle) == TRUE

\* furi_check(task_handle)
TaskHandleCheck(task_handle) == task_handle # NULL

furi_timer_set_thread_priority(priority, irq) ==
    /\ ~crashed /\ pc = "idle"
    /\ IF ~ContextCheck(irq)
       THEN Fatal("set_thread_priority", irq, 0)
       ELSE IF ~TaskHandleCheck(xTimerGetTimerDaemonTaskHandle)
       THEN Fatal("set_thread_priority", irq, 0)
       ELSE IF priority = FuriTimerThreadPriorityNormal
       THEN /\ prio' = "configTIMER_TASK_PRIORITY"
            /\ call' = [Call("set_thread_priority", NULL, 0, irq) EXCEPT
                           !.stat = "returned", !.level = priority]
            /\ UNCHANGED <<timers, heap, queue, daemon, pc, fcallb, handles,
                           crashed, hist>>
       ELSE IF priority = FuriTimerThreadPriorityElevated
       THEN /\ prio' = "configMAX_PRIORITIES - 1"
            /\ call' = [Call("set_thread_priority", NULL, 0, irq) EXCEPT
                           !.stat = "returned", !.level = priority]
            /\ UNCHANGED <<timers, heap, queue, daemon, pc, fcallb, handles,
                           crashed, hist>>
       ELSE Fatal("set_thread_priority", irq, 0)

\* ----------------------------------------------------------- specifications
\* The lifecycle of a timer: the application thread calls the API from
\* thread context with arguments that pass the entry checks, the daemon
\* thread runs beside it and the clock ticks.
Next ==
    \/ \E f \in Funcs, ty \in TimerTypes, cx \in Contexts :
            furi_timer_alloc(f, ty, cx, FALSE, TRUE)
    \/ \E i \in handles, n \in 1..MaxTicks : furi_timer_start(i, n, FALSE)
    \/ \E i \in handles, n \in 1..MaxTicks : furi_timer_restart(i, n, FALSE)
    \/ furi_timer_restart_reset
    \/ \E i \in handles : furi_timer_stop(i, FALSE)
    \/ \E i \in handles : furi_timer_is_running(i, FALSE)
    \/ \E i \in handles : furi_timer_free(i, FALSE)
    \/ furi_timer_free_poll
    \/ furi_timer_free_release
    \/ furi_timer_free_delete
    \/ \E t \in TimerIds : DaemonExpire(t)
    \/ DaemonWake
    \/ DaemonCommand
    \/ DaemonDrained
    \/ TimerCallback_invoke
    \/ TimerCallback_return
    \/ Tick

Spec == Init /\ [][Next]_vars

\* The whole API called from thread and from interrupt context, with valid
\* and invalid arguments, beside the daemon's command processing; the clock
\* stands still, so no timer expires.
NextApi ==
    \/ \E f \in Funcs \cup {"NULL"}, ty \in TimerTypes,
          irq \in BOOLEAN, created \in BOOLEAN :
            furi_timer_alloc(f, ty, "ctx1", irq, created)
    \/ \E i \in Instances, n \in TickInputs, irq \in BOOLEAN :
            furi_timer_start(i, n, irq)
    \/ \E i \in Instances, n \in TickInputs, irq \in BOOLEAN :
            furi_timer_restart(i, n, irq)
    \/ furi_timer_restart_reset
    \/ \E i \in Instances, irq \in BOOLEAN : furi_timer_stop(i, irq)
    \/ \E i \in Instances, irq \in BOOLEAN : furi_timer_is_running(i, irq)
    \/ \E i \in Instances, irq \in BOOLEAN : furi_timer_get_expire_time(i, irq)
    \/ \E i \in Instances, irq \in BOOLEAN : furi_timer_free(i, irq)
    \/ furi_timer_free_poll
    \/ furi_timer_free_release
    \/ furi_timer_free_delete
    \/ \E f \in Funcs \cup {"NULL"}, irq \in BOOLEAN :
            furi_timer_pending_callback(f, 0, irq)
    \/ furi_timer_pending_callback_wait
    \/ \E p \in PriorityLevels, irq \in BOOLEAN :
            furi_timer_set_thread_priority(p, irq)
    \/ DaemonWake
    \/ DaemonCommand
    \/ DaemonPend
    \/ DaemonPendReturn
    \/ DaemonDrained

SpecApi == Init /\ [][NextApi]_vars

\* Deferred calls beside running timers.  The application tells its calls
\* apart by arg: each call passes an arg above those of the calls that are
\* queued or running.
PendArgs ==
    {queue[i].value : i \in {j \in 1..Len(queue) : queue[j].cmd = "PEND"}}
        \cup {darg}
NextArg == 1 + (CHOOSE x \in PendArgs : \A y \in PendArgs : y <= x)

NextPend ==
    \/ \E ty \in TimerTypes : furi_timer_alloc("cb", ty, "ctx1", FALSE, TRUE)
    \/ \E i \in handles : furi_timer_start(i, 1, FALSE)
    \/ \E i \in handles : furi_timer_stop(i, FALSE)
    \/ \E irq \in BOOLEAN :
            NextArg <= MaxArg /\ furi_timer_pending_callback("cb", NextArg, irq)
    \/ furi_timer_pending_callback_wait
    \/ \E t \in TimerIds : DaemonExpire(t)
    \/ DaemonWake
    \/ DaemonCommand
    \/ DaemonPend
    \/ DaemonPendReturn
    \/ DaemonDrained
    \/ TimerCallback_invoke
    \/ TimerCallback_return
    \/ Tick

\* The daemon is scheduled fairly, pended functions and user callbacks
\* return, and a blocked submission is woken when the queue has room.
DaemonFairness ==
    /\ \A t \in TimerIds : WF_vars(DaemonExpire(t))
    /\ WF_vars(DaemonWake)
    /\ WF_vars(DaemonCommand)
    /\ WF_vars(DaemonPend)
    /\ WF_vars(DaemonPendReturn)
    /\ WF_vars(DaemonDrained)
    /\ WF_vars(TimerCallback_invoke)
    /\ WF_vars(TimerCallback_return)

SpecPend ==
    Init /\ [][NextPend]_vars /\ DaemonFairness
         /\ WF_vars(furi_timer_pending_callback_wait)

\* The Priority Controller from before the kernel has created the daemon
\* task: the daemon runs once xTimerCreateTimerTask has made it.
InitPrio ==
    /\ timers = [t \in TimerIds |-> NoTimer]
    /\ heap = [s \in Slots |-> NoSlot]
    /\ queue = <<>>
    /\ dpc = "top"
    /\ dtimer = NULL
    /\ dcallb = NULL
    /\ dctx = "none"
    /\ dleft = 0
    /\ darg = 0
    /\ current_timer_name = "NULL"
    /\ prio = "none"
    /\ pc = "idle"
    /\ call = NoCall
    /\ fcallb = NULL
    /\ handles = {}
    /\ crashed = FALSE
    /\ fires = [t \in TimerIds |-> 0]
    /\ started = [t \in TimerIds |-> FALSE]
    /\ given = [t \in TimerIds |-> "none"]

\* The kernel creates the daemon task at its initial priority.
xTimerCreateTimerTask ==
    /\ ~crashed
    /\ prio = "none"
    /\ prio' = "initial"
    /\ UNCHANGED <<timers, heap, queue, daemon, app, hist>>

DaemonExists == xTimerGetTimerDaemonTaskHandle # NULL

NextPrio ==
    \/ xTimerCreateTimerTask
    \/ \E p \in PriorityLevels, irq \in BOOLEAN :
            furi_timer_set_thread_priority(p, irq)
    \/ \E ty \in TimerTypes : furi_timer_alloc("cb", ty, "ctx1", FALSE, TRUE)
    \/ \E i \in handles : furi_timer_start(i, 1, FALSE)
    \/ \E i \in handles : furi_timer_stop(i, FALSE)
    \/ \E irq \in BOOLEAN : furi_timer_pending_callback("cb", 0, irq)
    \/ furi_timer_pending_callback_wait
    \/ DaemonExists /\ DaemonWake
    \/ DaemonExists /\ DaemonCommand
    \/ DaemonExists /\ DaemonPend
    \/ DaemonExists /\ DaemonPendReturn
    \/ DaemonExists /\ DaemonDrained

SpecPrio == InitPrio /\ [][NextPrio]_vars

\* Free beside a fairly scheduled daemon: the application allocates, starts,
\* stops and frees a timer; the daemon runs when it has work, user callbacks
\* return and the thread in Free runs on.
NextFree ==
    \/ \E ty \in TimerTypes : furi_timer_alloc("cb", ty, "ctx1", FALSE, TRUE)
    \/ \E i \in handles, n \in 1..MaxTicks : furi_timer_start(i, n, FALSE)
    \/ \E i \in handles : furi_timer_stop(i, FALSE)
    \/ \E i \in handles : furi_timer_free(i, FALSE)
    \/ furi_timer_free_poll
    \/ furi_timer_free_release
    \/ furi_timer_free_delete
    \/ \E t \in TimerIds : DaemonExpire(t)
    \/ DaemonWake
    \/ DaemonCommand
    \/ DaemonDrained
    \/ TimerCallback_invoke
    \/ TimerCallback_return
    \/ Tick

SpecFree ==
    Init /\ [][NextFree]_vars /\ DaemonFairness
         /\ WF_vars(furi_timer_free_poll)
         /\ WF_vars(furi_timer_free_release)
         /\ WF_vars(furi_timer_free_delete)

\* ------------------------------------------------------------------ claims
\* Steps of the daemon the claims speak of.
\* The trampoline calls the user callback of t.
InvokeStep(t) == dpc = "cb_read" /\ dpc' = "cb_user" /\ dtimer = t
\* The kernel calls the trampoline for t.
DispatchStep(t) == dpc # "cb_read" /\ dpc' = "cb_read" /\ dtimer' = t
\* The daemon takes the head of the queue, the last command queued for t.
AppliesLast(t) ==
    /\ dpc = "drain" /\ queue # <<>>
    /\ Head(queue).timer = t
    /\ Cardinality(MsgsFor(t)) = 1
    /\ queue' = Tail(queue)
\* The application thread is back from op on some timer with status st.
Returned(op, st) == pc = "idle" /\ call.op = op /\ call.stat = st /\ ~crashed

C3_IrqCallIsFatal ==
    [][(call'.irq /\ call'.op \in ThreadOnlyOps)
        => (crashed' /\ UNCHANGED <<kernel, daemon, pc, fcallb, handles>>)]_vars

C3_Witness ==
    /\ crashed /\ call.irq /\ call.op = "free"
    /\ handles # {} /\ queue # <<>>

C6_RestartCountsFullPeriod ==
    [][(Returned("restart", FuriStatusOk) /\ AppliesLast(call.t))
        => (/\ timers'[call.t].period = call.ticks
            /\ IF Head(queue).value < call.ticks
               THEN /\ timers'[call.t].active
                    /\ timers'[call.t].remaining = call.ticks - Head(queue).value
               ELSE DispatchStep(call.t))]_vars

\* Restart was called on a timer that was armed or had commands pending, its
\* commands are applied and the timer counts the full new period.
C6_Witness ==
    /\ Returned("restart", FuriStatusOk) /\ ~call.clean
    /\ MsgsFor(call.t) = {}
    /\ timers[call.t].active
    /\ timers[call.t].period = call.ticks
    /\ timers[call.t].remaining = call.ticks

\* C7: a Start or Restart that is back with the resource-error status has
\* left the timer as it was: it has queued no command for it.
C7_ErrorLeavesTimerUnaffected ==
    (pc = "idle" /\ call.op \in {"start", "restart"}
        /\ call.stat = FuriStatusErrorResource)
        => call.sent = 0

\* C8 as stated: once Stop(T) is back, the callback of a periodic T is not
\* invoked until a later Start or Restart.
C8_NoCallbackAfterStopReturns ==
    [][(Returned("stop", FuriStatusOk) /\ timers[call.t].reload)
        => ~InvokeStep(call.t)]_vars

\* C8 amended: once Stop(T) is back and the daemon has applied the stop
\* command, the callback of a periodic T is not invoked until a later Start
\* or Restart.
C8_NoCallbackAfterStopApplied ==
    [][(Returned("stop", FuriStatusOk) /\ timers[call.t].reload
            /\ MsgsFor(call.t) = {})
        => (~InvokeStep(call.t) /\ ~DispatchStep(call.t))]_vars

\* A periodic timer that has fired since it was started is stopped.
C8_Witness ==
    /\ Returned("stop", FuriStatusOk) /\ timers[call.t].reload
    /\ MsgsFor(call.t) = {}
    /\ fires[call.t] >= 1
    /\ ~timers[call.t].active

C10_DormantUntilStarted ==
    \A t \in TimerIds :
        (timers[t].alloc /\ ~started[t]) =>
            /\ IsRunningValue(t) = 0
            /\ fires[t] = 0
            /\ ~InTrampoline(t)

\* IsRunning read false on a timer that was allocated and never started.
C10_Witness ==
    /\ Returned("is_running", "none")
    /\ timers[call.t].alloc /\ ~started[call.t]
    /\ call.val = 0

\* Steps and states the claims on deferred calls speak of.
\* The args of the calls waiting in a queue.
QueuedArgs(q) == {q[i].value : i \in {j \in 1..Len(q) : q[j].cmd = "PEND"}}
\* The daemon starts to run a pended function.
PendStart == dpc # "pend_user" /\ dpc' = "pend_user"
\* The application is back normally from a PendingCallback call.
PendReturnStep ==
    /\ pc' = "idle" /\ ~crashed' /\ UNCHANGED dpc
    /\ call'.op = "pending_callback" /\ call'.stat = "returned"
    /\ (call' # call \/ Len(queue') > Len(queue))
\* The application calls PendingCallback with the queue full.
PendFullStep ==
    /\ pc = "idle" /\ QueueFull /\ UNCHANGED dpc
    /\ call'.op = "pending_callback"
    /\ (call' # call \/ crashed' # crashed \/ pc' # pc)

\* C11: deferred calls run in submission order: when the daemon starts to
\* run a call, every call still waiting in the queue was submitted after it
\* (has a higher arg), whichever context each was submitted from.
C11_PendOrder ==
    [][PendStart => \A a \in QueuedArgs(queue') : darg' < a]_vars

\* A call runs while a later one, submitted from interrupt context, waits.
C11_Witness ==
    /\ dpc = "pend_user" /\ darg = 1
    /\ QueuedArgs(queue) = {2}
    /\ call.op = "pending_callback" /\ call.irq /\ call.val = 2

\* C12: a PendingCallback call that is back normally has queued its call;
\* a queued call is run by the daemon, unless the system has halted; and the
\* call that starts to run is taken out of the queue, so it runs once.
C12_PendRunsOnce ==
    /\ [][PendReturnStep
            => queue' = Append(queue, Msg("PEND", NULL, call'.val))]_vars
    /\ \A a \in 1..MaxArg :
            (a \in QueuedArgs(queue)) ~> ((dpc = "pend_user" /\ darg = a) \/ crashed)
    /\ [][PendStart
            => (/\ queue = <<Msg("PEND", NULL, darg')>> \o queue'
                /\ darg' \notin QueuedArgs(queue'))]_vars

\* The daemon runs the last of MaxArg calls that were submitted from thread
\* context while the earlier ones were queued or running.
C12_Witness ==
    /\ dpc = "pend_user" /\ darg = MaxArg
    /\ call.op = "pending_callback" /\ call.val = MaxArg /\ ~call.irq
    /\ call.stat = "returned" /\ ~crashed

\* C13: a PendingCallback made from interrupt context never waits; made with
\* the queue full it ends in the fatal path with nothing queued or, from
\* thread context only, waits for room; and a waiting call is left only by
\* queueing the call: it never gives up.
C13_PendRoutes ==
    /\ [](pc = "pend_wait" => ~call.irq)
    /\ [][PendFullStep
            => (/\ queue' = queue
                /\ \/ crashed'
                   \/ pc' = "pend_wait" /\ ~call'.irq)]_vars
    /\ [][pc = "pend_wait"
            => \/ pc' = "pend_wait" /\ UNCHANGED <<call, crashed>>
               \/ /\ pc' = "idle" /\ ~crashed' /\ call'.stat = "returned"
                  /\ queue' = Append(queue, Msg("PEND", NULL, call.val))]_vars

\* A call made from interrupt context with the queue full has halted the
\* system.
C13_Witness ==
    /\ crashed /\ call.op = "pending_callback" /\ call.irq
    /\ QueueFull

\* C14: Start or Restart called with ticks at or above the sentinel ends in
\* the fatal path with no command sent and no timer changed, and every
\* change-period command in the queue carries ticks below the sentinel.
C14_SentinelIsFatal ==
    /\ [][(call'.op \in {"start", "restart"} /\ call'.ticks >= portMAX_DELAY)
            => (crashed' /\ UNCHANGED <<kernel, daemon, pc>>)]_vars
    /\ [](\A i \in 1..Len(queue) :
            queue[i].cmd = "CHANGE_PERIOD" => queue[i].value < portMAX_DELAY)

\* Restart was called from thread context on a live timer with the sentinel.
C14_Witness ==
    /\ crashed /\ call.op = "restart" /\ ~call.irq
    /\ call.ticks = portMAX_DELAY
    /\ handles # {}

\* C15: the daemon's priority is its initial value or one of the two fixed
\* levels; it is changed only by a SetDaemonPriority call that is back, and
\* while that call is the last one made it is the level the call named; a
\* call made before the daemon task exists, or naming another level, ends in
\* the fatal path with the priority as it was.
C15_PriorityLevels ==
    /\ [](prio \in {"none", "initial", "configTIMER_TASK_PRIORITY",
                    "configMAX_PRIORITIES - 1"})
    /\ []((call.op = "set_thread_priority" /\ call.stat = "returned") =>
            /\ call.level \in {FuriTimerThreadPriorityNormal,
                               FuriTimerThreadPriorityElevated}
            /\ call.level = FuriTimerThreadPriorityNormal
                    => prio = "configTIMER_TASK_PRIORITY"
            /\ call.level = FuriTimerThreadPriorityElevated
                    => prio = "configMAX_PRIORITIES - 1")
    /\ [][prio' # prio =>
            \/ prio = "none" /\ prio' = "initial"
            \/ /\ call'.op = "set_thread_priority" /\ call'.stat = "returned"
               /\ ~crashed']_vars
    /\ [][(call'.op = "set_thread_priority" /\ prio = "none")
            => (crashed' /\ prio' = prio)]_vars
    /\ [][(call'.op = "set_thread_priority" /\ crashed') => prio' = prio]_vars

\* The priority was raised, and a later call naming no level has halted the
\* system with the priority still raised.
C15_Witness ==
    /\ crashed /\ call.op = "set_thread_priority" /\ ~call.irq
    /\ prio = "configMAX_PRIORITIES - 1"

\* The Callback Slots in use.
LiveSlots == {s \in Slots : heap[s].live}

\* C16: Free releases the slot of T only after it has queued the stop, leaves
\* its poll only on reading T inactive, and queues the delete only with the
\* slot released; a slot comes into use only by Allocate and goes out of use
\* only by Free of its timer; between API calls there are as many slots in
\* use as timers the application holds.
C16_FreeOrder ==
    /\ [](pc = "idle" => Cardinality(LiveSlots) = Cardinality(handles))
    /\ [][\A s \in Slots :
            /\ (heap[s].live /\ ~heap'[s].live) =>
                    /\ pc = "free_release" /\ call.op = "free" /\ call.sent = 1
                    /\ SlotOf(ClearFlag(pvTimerGetTimerID(call.t))) = s
            /\ (~heap[s].live /\ heap'[s].live) =>
                    /\ pc = "idle" /\ call'.op = "alloc"
                    /\ SlotOf(ClearFlag(timers'[call'.t].id)) = s]_vars
    /\ [][(pc = "free_poll" /\ pc' # "free_poll")
            => (pc' = "free_release" /\ ~timers[call.t].active)]_vars
    /\ [][(Len(queue') > Len(queue) /\ queue'[Len(queue')].cmd = "DELETE")
            => (/\ pc = "free_delete"
                /\ ~heap[SlotOf(ClearFlag(pvTimerGetTimerID(call.t)))].live)]_vars

\* Free is back: it sent the stop and the delete and no slot is in use.
C16_Witness ==
    /\ Returned("free", "returned") /\ call.sent = 2
    /\ LiveSlots = {} /\ handles = {}

\* C17: with the daemon scheduled fairly and callbacks returning, a Free
\* that has entered its polling loop leaves it and is back, unless a failed
\* delete has halted the system.
C17_FreeReturns ==
    (pc = "free_poll") ~> (Returned("free", "returned") \/ crashed)

\* Free polls a periodic timer that is armed while its callback runs.
C17_Witness ==
    /\ pc = "free_poll" /\ ~crashed
    /\ timers[call.t].reload /\ timers[call.t].active
    /\ dpc = "cb_user" /\ dtimer = call.t

\* C18: the diagnostic slot holds the name of T while the daemon is in the
\* user callback of T and is null in every other state, the daemon running a
\* deferred call included; it changes only when the trampoline calls the user
\* callback and when that callback returns.
C18_NameWhileCallback ==
    /\ [](IF dpc = "cb_user"
          THEN /\ timers[dtimer].alloc
               /\ timers[dtimer].name # "NULL"
               /\ current_timer_name = timers[dtimer].name
          ELSE current_timer_name = "NULL")
    /\ [][current_timer_name' # current_timer_name =>
            \/ dpc = "cb_read" /\ dpc' = "cb_user"
            \/ dpc = "cb_user" /\ dpc' # "cb_user"]_vars

\* The name is published while a deferred call waits in the queue.
C18_Witness ==
    /\ dpc = "cb_user" /\ current_timer_name = "appid"
    /\ QueuedArgs(queue) # {}

\* C19: for every timer the application holds, the reference stored in the
\* kernel timer is non-null with its ownership bit set and points at a slot
\* that, until Free releases it, is in use and holds the function and the
\* context Allocate was given; no step changes the stored reference; and Free
\* reaches its delete only through the stop it sent.
C19_TagStable ==
    /\ [](\A t \in handles :
            /\ timers[t].alloc
            /\ pvTimerGetTimerID(t) # NULL
            /\ FlagOf(pvTimerGetTimerID(t)) = 1
            /\ ClearFlag(pvTimerGetTimerID(t)) # NULL
            /\ pc # "free_delete" =>
                    /\ heap[SlotOf(ClearFlag(pvTimerGetTimerID(t)))].live
                    /\ heap[SlotOf(ClearFlag(pvTimerGetTimerID(t)))].func \in Funcs
                    /\ heap[SlotOf(ClearFlag(pvTimerGetTimerID(t)))].context = given[t])
    /\ [][\A t \in handles \cap handles' : timers'[t].id = timers[t].id]_vars
    /\ [](pc = "free_delete" => call.sent = 1)

\* Free polls a timer that was started and has fired, its reference intact.
C19_Witness ==
    /\ pc = "free_poll" /\ call.t \in handles
    /\ started[call.t] /\ fires[call.t] >= 1
    /\ FlagOf(pvTimerGetTimerID(call.t)) = 1
    /\ heap[SlotOf(ClearFlag(pvTimerGetTimerID(call.t)))].context = given[call.t]

\* C20: commands on one timer take effect in issue order.  Every command is
\* queued behind those issued before it; when the daemon applies the last
\* command queued for T and the last call was Stop, T is disarmed, and stays
\* so with the queue drained; when the last call was Start(T, n), T is armed
\* with period n.
C20_IssueOrderWins ==
    /\ [][Len(queue') > Len(queue)
            => queue' = Append(queue, queue'[Len(queue')])]_vars
    /\ [][(Returned("stop", FuriStatusOk) /\ AppliesLast(call.t))
            => ~timers'[call.t].active]_vars
    /\ []((Returned("stop", FuriStatusOk) /\ MsgsFor(call.t) = {})
            => ~timers[call.t].active)
    /\ [][(Returned("start", FuriStatusOk) /\ AppliesLast(call.t))
            => (/\ timers'[call.t].active
                /\ timers'[call.t].period = call.ticks)]_vars

\* Start then Stop were issued: the daemon has applied the start, T counts
\* its full period, and the stop is the next command it takes.
C20_Witness ==
    /\ Returned("stop", FuriStatusOk)
    /\ dpc = "drain" /\ queue = <<StopCommand(call.t)>>
    /\ timers[call.t].active
    /\ timers[call.t].remaining = timers[call.t].period

====
